---- MODULE Spec2Model ----
(***************************************************************************)
(* Model of src/src/index.ts: the class Env<T>, an immutable, statically   *)
(* typed service registry.                                                 *)
(*                                                                         *)
(* The state is the heap of Env instances the program has constructed.     *)
(* An instance has the private field m (the environment map, a JavaScript  *)
(* object, modelled as its own properties in property order) and, as a     *)
(* compile-time attribute, its type argument T (an intersection            *)
(* Has<K1,V1> & ... & Has<Kn,Vn>, modelled as the set of its members       *)
(* <<Ki, Vi>>).  Every method is modelled as an operator from the heap and *)
(* the receiver to the outcome of the call: the heap after it, the         *)
(* returned instance or value, the error thrown, and the events of the     *)
(* call (layer invocations and constructor runs) in program order.         *)
(***************************************************************************)
EXTENDS Integers, Sequences, FiniteSets, TLC

\* ------------------------------------------------------------------ bounds
\* Number of Env instances the program constructs.
MaxEnvs == 3
\* Number literals 1..MaxNum are passed to with().
MaxNum == 1

\* ------------------------------------------------------------------ values
\* String-literal keys (none is an integer index, so that the property
\* order of the map is the insertion order).
Keys == {"a", "b", "x"}

\* A JavaScript value: its runtime type, and its number or string payload.
Num(n) == [t |-> "number", n |-> n, s |-> ""]
Str(s) == [t |-> "string", n |-> 0, s |-> s]
Undefined == [t |-> "undefined", n |-> 0, s |-> ""]

\* The values the callers bind with with().
Values == {Num(n) : n \in 1..MaxNum} \cup {Str("s")}

\* The type V that TypeScript infers for a value argument (literal types
\* are widened).
TypeOf(v) == v.t

\* The layer constructors the callers pass to withLayer() and consume():
\*   fresh:  env => "s"
\*   incA:   env => env.get("a") + 1
\*   fail:   env => { throw "boom" }
Layers == {"fresh", "incA", "fail"}

VARIABLES heap, origin, last
vars == <<heap, origin, last>>

\* ----------------------------------------------------------- the map (m)
\* The own property keys of a map, in property order.
RECURSIVE OwnKeys(_)
OwnKeys(m) == IF m = <<>> THEN <<>> ELSE <<Head(m).k>> \o OwnKeys(Tail(m))

KeySet(m) == {m[i].k : i \in 1..Len(m)}

\* m[key]: the value of the property, undefined when there is none.
Lookup(m, key) ==
    IF key \in KeySet(m)
    THEN m[CHOOSE i \in 1..Len(m) : m[i].k = key].v
    ELSE Undefined

\* Defines one property on a map: an existing property keeps its place and
\* takes the new value, a new one comes last.
DefineProperty(m, e) ==
    IF e.k \in KeySet(m)
    THEN [i \in 1..Len(m) |-> IF m[i].k = e.k THEN e ELSE m[i]]
    ELSE Append(m, e)

\* Copies the properties of m2 onto m1, in order.
RECURSIVE CopyDataProperties(_, _)
CopyDataProperties(m1, m2) ==
    IF m2 = <<>> THEN m1
    ELSE CopyDataProperties(DefineProperty(m1, Head(m2)), Tail(m2))

\* Mutant: the spread operands in the other order, { ..._m, ...this.m }.
SpreadOldWins(m1, m2) == CopyDataProperties(CopyDataProperties(<<>>, m2), m1)

\* Mutant: the spread of this.m is forgotten, { ..._m }.
SpreadOnlyNew(m1, m2) == CopyDataProperties(<<>>, m2)

\* The object literal { ...m1, ...m2 }: a fresh object.
Spread(m1, m2) == CopyDataProperties(CopyDataProperties(<<>>, m1), m2)

\* ------------------------------------------------------------ the type (T)
\* Has<K, V> = {[P in K]: V}
Has(K, V) == {<<K, V>>}

\* keyof T
KeyOf(T) == {p[1] : p \in T}

\* T[K]: the members of the intersection that is the declared type of K.
\* A single member {V} is the type V; two distinct primitive types are never.
Indexed(T, K) == {p[2] : p \in {q \in T : q[1] = K}}

\* ------------------------------------------------------------- call results
\* The outcome of a call: the heap after it, the instance returned (0 when
\* none), the value returned, the error thrown ("" when none), the events.
Returned(h, id, ev) ==
    [heap |-> h, ret |-> id, val |-> Undefined, thrown |-> "", events |-> ev]
Yielded(h, v, ev) ==
    [heap |-> h, ret |-> 0, val |-> v, thrown |-> "", events |-> ev]
Threw(h, err, ev) ==
    [heap |-> h, ret |-> 0, val |-> Undefined, thrown |-> err, events |-> ev]

Invoke(live, self) == [e |-> "invoke", layer |-> live, arg |-> self]
Construct(id) == [e |-> "construct", layer |-> "", arg |-> id]

\* private constructor(m: T): allocates the instance and stores the map.
New(h, m, T) ==
    Returned(Append(h, [m |-> m, T |-> T]), Len(h) + 1, <<Construct(Len(h) + 1)>>)

\* static build = () => new Env({})
Build(h) == New(h, <<>>, {})

\* --------------------------------------------------------------- the layers
\* Layer<E, V> = (env: Env<E>) => V.  A layer is accepted for an Env<T> when
\* T provides, with the types the layer asks for, the keys the layer reads.
Accepts(live, T) ==
    IF live = "incA" THEN "number" \in Indexed(T, "a") ELSE TRUE

\* The + operator of JavaScript with a number on the right.
Plus(v, n) ==
    IF v.t = "number" THEN Num(v.n + n) ELSE Str(v.s \o ToString(n))

\* live(env): the error the layer throws ("" when none), the value it
\* returns and its declared return type V.
Live(live, h, env) ==
    CASE live = "fresh" -> [thrown |-> "", val |-> Str("s"), V |-> "string"]
      [] live = "incA" ->
            [thrown |-> "", val |-> Plus(Lookup(h[env].m, "a"), 1), V |-> "number"]
      [] live = "fail" -> [thrown |-> "boom", val |-> Undefined, V |-> "never"]

\* -------------------------------------------------------------- the methods
\* Mutant: the map of the receiver is extended in place and the receiver
\* itself is returned.
WithInPlace(h, self, key, value, V) ==
    LET _m == <<[k |-> key, v |-> value]>>
    IN  Returned([h EXCEPT ![self] = [m |-> Spread(h[self].m, _m),
                                       T |-> h[self].T \cup Has(key, V)]],
                 self, <<>>)

\* with<K, V>(key: K, value: V): Env<T & Has<K, V>>
With(h, self, key, value, V) ==
    LET _m == <<[k |-> key, v |-> value]>>
    IN  New(h, Spread(h[self].m, _m), h[self].T \cup Has(key, V))

\* Mutant: the layer is given the environment already extended with the key
\* (not yet holding a value).
WithLayerSelfVisible(h, self, key, live) ==
    LET p == With(h, self, key, Undefined, "undefined")
        r == Live(live, p.heap, p.ret)
    IN  IF r.thrown # ""
        THEN Threw(p.heap, r.thrown, p.events \o <<Invoke(live, p.ret)>>)
        ELSE LET w == With(p.heap, p.ret, key, r.val, r.V)
             IN  [w EXCEPT !.events = p.events \o <<Invoke(live, p.ret)>> \o w.events]

\* Mutant: the result holds the constructed service only.
WithLayerOnlyNew(h, self, key, live) ==
    LET r == Live(live, h, self)
    IN  IF r.thrown # ""
        THEN Threw(h, r.thrown, <<Invoke(live, self)>>)
        ELSE LET n == New(h, <<[k |-> key, v |-> r.val]>>, Has(key, r.V))
             IN  [n EXCEPT !.events = <<Invoke(live, self)>> \o n.events]

\* withLayer<K, V>(key: K, live: Layer<T, V>): Env<T & Has<K, V>>
\* The argument live(this) is evaluated before with() is entered; an error
\* thrown by it leaves the method at once.
WithLayer(h, self, key, live) ==
    LET r == Live(live, h, self)
    IN  IF r.thrown # ""
        THEN Threw(h, r.thrown, <<Invoke(live, self)>>)
        ELSE LET w == With(h, self, key, r.val, r.V)
             IN  [w EXCEPT !.events = <<Invoke(live, self)>> \o w.events]

\* Mutant: the result keeps the services of the consumed environment.
ConsumeKeeps(h, self, key, live) == WithLayer(h, self, key, live)

\* Mutant: an error of the layer is caught and the service left undefined.
ConsumeSwallows(h, self, key, live) ==
    LET r == Live(live, h, self)
        n == New(h, <<[k |-> key, v |-> r.val]>>, Has(key, r.V))
    IN  [n EXCEPT !.events = <<Invoke(live, self)>> \o n.events]

\* Mutant: the layer is invoked a second time after the result is built.
ConsumeTwice(h, self, key, live) ==
    LET r == Live(live, h, self)
    IN  IF r.thrown # ""
        THEN Threw(h, r.thrown, <<Invoke(live, self)>>)
        ELSE LET n == New(h, <<[k |-> key, v |-> r.val]>>, Has(key, r.V))
             IN  [n EXCEPT !.events =
                     <<Invoke(live, self)>> \o n.events \o <<Invoke(live, self)>>]

\* consume<K, V>(key: K, live: Layer<T, V>): Env<Has<K, V>>
Consume(h, self, key, live) ==
    LET r == Live(live, h, self)
    IN  IF r.thrown # ""
        THEN Threw(h, r.thrown, <<Invoke(live, self)>>)
        ELSE LET _m == <<[k |-> key, v |-> r.val]>>
                 n == New(h, _m, Has(key, r.V))
             IN  [n EXCEPT !.events = <<Invoke(live, self)>> \o n.events]

\* get<K extends keyof T>(key: K): T[K]
Get(h, self, key) == Yielded(h, Lookup(h[self].m, key), <<>>)

\* ---------------------------------------------------------------- the calls
\* The record of a call and of its outcome.
Call(op, self, key, value, live, r) ==
    [op |-> op, self |-> self, key |-> key, value |-> value, layer |-> live,
     ret |-> r.ret, val |-> r.val, thrown |-> r.thrown, events |-> r.events]

NoCall == Call("", 0, "", Undefined, "", Returned(<<>>, 0, <<>>))

\* The caller receives the outcome r of the call c: the heap is the one the
\* call left, and an instance the call allocated is remembered with the
\* call that made it.
Outcome(c, r) ==
    /\ heap' = r.heap
    /\ last' = c
    /\ origin' = IF Len(r.heap) > Len(heap) THEN Append(origin, c) ELSE origin

Init ==
    /\ heap = <<>>
    /\ origin = <<>>
    /\ last = NoCall

\* Env.build()
build ==
    /\ Len(heap) < MaxEnvs
    /\ LET r == Build(heap)
       IN  Outcome(Call("build", 0, "", Undefined, "", r), r)

\* env.with(key, value)
with ==
    /\ Len(heap) < MaxEnvs
    /\ \E self \in 1..Len(heap), key \in Keys, value \in Values :
          LET r == With(heap, self, key, value, TypeOf(value))
          IN  Outcome(Call("with", self, key, value, "", r), r)

\* env.withLayer(key, live)
withLayer ==
    /\ Len(heap) < MaxEnvs
    /\ \E self \in 1..Len(heap), key \in Keys, live \in Layers :
          /\ Accepts(live, heap[self].T)
          /\ LET r == WithLayer(heap, self, key, live)
             IN  Outcome(Call("withLayer", self, key, Undefined, live, r), r)

\* env.consume(key, live)
consume ==
    /\ Len(heap) < MaxEnvs
    /\ \E self \in 1..Len(heap), key \in Keys, live \in Layers :
          /\ Accepts(live, heap[self].T)
          /\ LET r == Consume(heap, self, key, live)
             IN  Outcome(Call("consume", self, key, Undefined, live, r), r)

\* env.get(key), for a key of keyof T
get ==
    \E self \in 1..Len(heap) :
       \E key \in KeyOf(heap[self].T) :
          LET r == Get(heap, self, key)
          IN  Outcome(Call("get", self, key, Undefined, "", r), r)

Next == build \/ with \/ withLayer \/ consume \/ get

Spec == Init /\ [][Next]_vars

\* ------------------------------------------------------------- the claims
\* The calls that made an instance, the instance they made, their receiver.
Made(op) == {i \in 1..Len(origin) :
                /\ origin[i].op = op
                /\ origin[i].ret \in 1..Len(heap)
                /\ origin[i].self \in 1..Len(heap)}
Result(i) == heap[origin[i].ret]
Receiver(i) == heap[origin[i].self]
Occurrences(m, key) == Cardinality({j \in 1..Len(m) : m[j].k = key})

\* The layer invocations among the events of a call.
Invocations(ev) == {j \in 1..Len(ev) : ev[j].e = "invoke"}

\* Two environments have the same key set and the same value under each key.
SameContents(h1, e1, h2, e2) ==
    /\ KeySet(h1[e1].m) = KeySet(h2[e2].m)
    /\ \A k \in Keys : Get(h1, e1, k).val = Get(h2, e2, k).val

\* C1: get(bind(E, K, V), K) is V for every E, K and V, whether or not K is
\* bound in E, and K occurs once among the keys of the result.
C1_GetAfterBind ==
    \A i \in Made("with") :
        /\ Get(heap, origin[i].ret, origin[i].key).val = origin[i].value
        /\ Occurrences(Result(i).m, origin[i].key) = 1

\* A bind has replaced a different value that its receiver held for the key.
C1_Witness ==
    \E i \in Made("with") :
        /\ origin[i].key \in KeySet(Receiver(i).m)
        /\ Lookup(Receiver(i).m, origin[i].key) # origin[i].value
        /\ Lookup(Result(i).m, origin[i].key) = origin[i].value

\* C2: no call changes an instance that exists: its key set and the value
\* of get for each of its keys are the same after the call as before, and a
\* call that returns an environment returns a new instance.
C2_NoMutation ==
    [][ /\ \A i \in 1..Len(heap) :
              /\ i \in 1..Len(heap')
              /\ KeySet(heap'[i].m) = KeySet(heap[i].m)
              /\ \A k \in KeySet(heap[i].m) :
                    Get(heap', i, k).val = Get(heap, i, k).val
        /\ (last'.op \in {"with", "withLayer", "consume"} /\ last'.thrown = "")
              => /\ last'.ret # last'.self
                 /\ last'.ret \notin 1..Len(heap)
                 /\ last'.ret \in 1..Len(heap') ]_vars

\* A key has been bound again and the receiver still holds its own value.
C2_Witness ==
    /\ last.op = "with"
    /\ last.ret \in 1..Len(heap)
    /\ last.key \in KeySet(heap[last.self].m)
    /\ Lookup(heap[last.self].m, last.key) # last.value
    /\ Lookup(heap[last.ret].m, last.key) = last.value

\* C3: the keys of bind(E, K, V) are the keys of E and K, declared and at
\* run time, and every other key of E keeps the value it has in E.
C3_BindKeepsOthers ==
    \A i \in Made("with") :
        /\ KeySet(Result(i).m) = KeySet(Receiver(i).m) \cup {origin[i].key}
        /\ KeyOf(Result(i).T) = KeySet(Result(i).m)
        /\ \A K3 \in KeySet(Receiver(i).m) \ {origin[i].key} :
              Get(heap, origin[i].ret, K3).val = Get(heap, origin[i].self, K3).val

\* A bind on an environment that holds another key.
C3_Witness ==
    \E i \in Made("with") :
        \E K3 \in KeySet(Receiver(i).m) :
            /\ K3 # origin[i].key
            /\ Lookup(Result(i).m, K3) = Lookup(Receiver(i).m, K3)
            /\ Lookup(Result(i).m, origin[i].key) = origin[i].value

\* C4: bindComputed(E, K, f) has the keys of E and K, holds f(E) under K and
\* E's value under every other key of E; for E with "a" -> 1 and
\* f = env -> get(env, "a") + 1 bound to "b", get of "b" is 2 and of "a" is 1.
C4_BindComputed ==
    \A i \in Made("withLayer") :
        LET c == origin[i]
        IN  /\ KeySet(Result(i).m) = KeySet(Receiver(i).m) \cup {c.key}
            /\ KeyOf(Result(i).T) = KeySet(Result(i).m)
            /\ Get(heap, c.ret, c.key).val = Live(c.layer, heap, c.self).val
            /\ \A k \in KeySet(Receiver(i).m) \ {c.key} :
                  Get(heap, c.ret, k).val = Get(heap, c.self, k).val
            /\ (c.layer = "incA" /\ c.key = "b" /\ Get(heap, c.self, "a").val = Num(1))
                  => /\ Get(heap, c.ret, "b").val = Num(2)
                     /\ Get(heap, c.ret, "a").val = Num(1)

\* The layer that reads "a" has been bound to "b" on an environment with
\* "a" -> 1.
C4_Witness ==
    \E i \in Made("withLayer") :
        /\ origin[i].layer = "incA"
        /\ origin[i].key = "b"
        /\ Lookup(Receiver(i).m, "a") = Num(1)
        /\ Lookup(Result(i).m, "b") = Num(2)

\* C5: reduceComputed(E, K, f) returns an environment whose declared and
\* run-time key set is {K}, with the value f(E); the other keys of E are
\* absent from it, and E still holds them.
C5_ReduceComputed ==
    [][ (last'.op = "consume" /\ last'.thrown = "")
          => /\ last'.ret \in 1..Len(heap')
             /\ last'.self \in 1..Len(heap)
             /\ KeySet(heap'[last'.ret].m) = {last'.key}
             /\ KeyOf(heap'[last'.ret].T) = {last'.key}
             /\ Get(heap', last'.ret, last'.key).val
                   = Live(last'.layer, heap, last'.self).val
             /\ \A k \in KeySet(heap[last'.self].m) \ {last'.key} :
                   /\ Get(heap', last'.ret, k).val = Undefined
                   /\ Get(heap', last'.self, k).val = Get(heap, last'.self, k).val
                   /\ k \in KeySet(heap'[last'.self].m) ]_vars

\* An environment has been reduced by a layer that read a key of it, and
\* the key is not in the result.
C5_Witness ==
    /\ last.op = "consume"
    /\ last.layer = "incA"
    /\ last.key # "a"
    /\ last.ret \in 1..Len(heap)
    /\ "a" \in KeySet(heap[last.self].m)
    /\ "a" \notin KeySet(heap[last.ret].m)

\* C6 as claimed: the environment passed to the constructor of
\* bindComputed(E, K, f) never contains K, also when K is bound in E.
C6_ConstructorNeverSeesKey ==
    last.op = "withLayer" =>
        \A j \in Invocations(last.events) :
            last.key \notin KeySet(heap[last.events[j].arg].m)

\* C6 as amended: the environment passed to the constructor contains K only
\* when K is bound in E, and then holds under K the value that E holds; when
\* K is not bound in E it does not contain K.
C6_ConstructorSeesOnlyOldKey ==
    last.op = "withLayer" =>
        \A j \in Invocations(last.events) :
            LET env == heap[last.events[j].arg]
            IN  /\ KeySet(env.m) = KeySet(heap[last.self].m)
                /\ last.key \in KeySet(env.m) =>
                      /\ last.key \in KeySet(heap[last.self].m)
                      /\ Lookup(env.m, last.key) = Lookup(heap[last.self].m, last.key)
                      /\ Indexed(env.T, last.key) = Indexed(heap[last.self].T, last.key)

\* A layer has been bound to the key it reads: it was given the value that
\* the receiver held, and the result holds the new one.
C6_Witness ==
    /\ last.op = "withLayer"
    /\ last.layer = "incA"
    /\ last.key = "a"
    /\ last.ret \in 1..Len(heap)
    /\ Invocations(last.events) # {}
    /\ Lookup(heap[last.ret].m, "a") = Plus(Lookup(heap[last.self].m, "a"), 1)

\* C7: when the constructor given to bindComputed or reduceComputed fails,
\* the call fails with the same error, returns no environment, allocates
\* none, and the receiver keeps its keys and values.
C7_FailurePropagates ==
    [][ (last'.op \in {"withLayer", "consume"}
            /\ Live(last'.layer, heap, last'.self).thrown # "")
          => /\ last'.thrown = Live(last'.layer, heap, last'.self).thrown
             /\ last'.ret = 0
             /\ Len(heap') = Len(heap)
             /\ heap'[last'.self] = heap[last'.self] ]_vars

\* A call on an environment with a key has failed with the layer's error.
C7_Witness ==
    /\ last.op \in {"withLayer", "consume"}
    /\ last.thrown = "boom"
    /\ KeySet(heap[last.self].m) # {}

\* C8: binds of distinct keys commute: for E, K1 # K2, V1 and V2,
\* bind(bind(E, K1, V1), K2, V2) and bind(bind(E, K2, V2), K1, V1) have the
\* same key set and the same value of get for every key.
C8_DisjointBindsCommute ==
    \A i \in Made("with") :
        \A K2 \in Keys \ {origin[i].key}, V2 \in Values :
            LET c == origin[i]
                ab == With(heap, c.ret, K2, V2, TypeOf(V2))
                b == With(heap, c.self, K2, V2, TypeOf(V2))
                ba == With(b.heap, b.ret, c.key, c.value, TypeOf(c.value))
            IN  /\ SameContents(ab.heap, ab.ret, ba.heap, ba.ret)
                /\ Get(ab.heap, ab.ret, c.key).val = c.value
                /\ Get(ba.heap, ba.ret, K2).val = V2

\* bind(E, K1, V1) has been made of an E that holds both K1 and another key,
\* so that the two orders build their maps in different property orders.
C8_Witness ==
    \E i \in Made("with") :
        \E K2 \in Keys \ {origin[i].key} :
            /\ Receiver(i).m # <<>>
            /\ K2 \notin KeySet(Receiver(i).m)
            /\ LET c == origin[i]
                   ab == With(heap, c.ret, K2, Str("s"), "string")
                   b == With(heap, c.self, K2, Str("s"), "string")
                   ba == With(b.heap, b.ret, c.key, c.value, TypeOf(c.value))
               IN  /\ OwnKeys(ab.heap[ab.ret].m) # OwnKeys(ba.heap[ba.ret].m)
                   /\ SameContents(ab.heap, ab.ret, ba.heap, ba.ret)

\* C9 as claimed: bind(K, value of type V) on an environment that declares
\* K makes V the declared type of K, and the new value alone the entry of K.
C9_RebindOverridesType ==
    \A i \in Made("with") :
        origin[i].key \in KeyOf(Receiver(i).T) =>
            /\ Indexed(Result(i).T, origin[i].key) = {TypeOf(origin[i].value)}
            /\ Get(heap, origin[i].ret, origin[i].key).val = origin[i].value

\* C10: a call of bindComputed or reduceComputed invokes the constructor
\* once, with the receiver, before the result is constructed; no other call
\* invokes a constructor.
C10_InvokedOnceBeforeConstruction ==
    /\ last.op \in {"withLayer", "consume"} =>
          /\ Cardinality(Invocations(last.events)) = 1
          /\ last.events[1] = Invoke(last.layer, last.self)
          /\ last.thrown = "" =>
                /\ Len(last.events) = 2
                /\ last.events[2] = Construct(last.ret)
    /\ last.op \in {"build", "with", "get"} => Invocations(last.events) = {}
    /\ \A i \in Made("withLayer") \cup Made("consume") :
          /\ Cardinality(Invocations(origin[i].events)) = 1
          /\ Get(heap, origin[i].ret, origin[i].key).val
                = Live(origin[i].layer, heap, origin[i].self).val

\* A get on the result of a bindComputed: the constructor ran in the call
\* that made the result, and not in the get.
C10_Witness ==
    /\ last.op = "get"
    /\ last.events = <<>>
    /\ \E i \in Made("withLayer") :
          /\ origin[i].ret = last.self
          /\ origin[i].key = last.key
          /\ origin[i].events = <<Invoke(origin[i].layer, origin[i].self),
                                  Construct(origin[i].ret)>>
          /\ last.val = Live(origin[i].layer, heap, origin[i].self).val
====
